---- MODULE Spec2Model ----
(***************************************************************************)
(* Metadata journaling for VSFS (journal.c): the `create` command stages a *)
(* file creation as data records plus a commit record in the journal       *)
(* region of the disk image, the `install` command replays the journal     *)
(* into the permanent region and clears it.                                *)
(*                                                                         *)
(* A block of the image is modelled by what its bytes decode to:           *)
(*   Zero                      4096 zero bytes                             *)
(*   [k |-> "sb",   v |-> r]   the superblock, r its fields                *)
(*   [k |-> "bmap", v |-> S]   a bitmap, S the indices of its 1 bits       *)
(*   [k |-> "itab", v |-> f]   an inode-table block, f maps the index of   *)
(*                             each non-zero inode of the block to it      *)
(*   [k |-> "dir",  v |-> f]   a directory block, f maps each non-zero     *)
(*                             slot to its entry                           *)
(* An all-zero bitmap, inode block or directory block is the value Zero,   *)
(* so equality of images is equality of bytes.                             *)
(*                                                                         *)
(* The journal region (blocks 1..16) is one byte buffer.  It is modelled   *)
(* by its header and by the fields that were written into it, each at its  *)
(* byte offset: a record header <<"hdr", type, size>> (4 bytes), a block   *)
(* number <<"blk", n>> (4 bytes), a block image <<"img", b>> (4096 bytes). *)
(* Bytes that no field covers are zero.  A field that a later write partly  *)
(* overwrites is dropped whole; create appends whole records at the cursor, *)
(* so what is left of such a field lies beyond the cursor, where neither    *)
(* command reads before it has been written again.                         *)
(***************************************************************************)
EXTENDS Integers, Sequences, FiniteSets, TLC

\* ---- program constants (journal.c:11-27) ----
BLOCK_SIZE == 4096
INODE_SIZE == 128
JOURNAL_BLOCK_IDX == 1
JOURNAL_BLOCKS == 16
INODE_BLOCKS == 2
DATA_BLOCKS == 64
INODE_BMAP_IDX == JOURNAL_BLOCK_IDX + JOURNAL_BLOCKS
DATA_BMAP_IDX == INODE_BMAP_IDX + 1
INODE_START_IDX == DATA_BMAP_IDX + 1
DATA_START_IDX == INODE_START_IDX + INODE_BLOCKS
TOTAL_BLOCKS == DATA_START_IDX + DATA_BLOCKS
FS_MAGIC == 1448297043
JOURNAL_MAGIC == 1246907980
REC_DATA == 1
REC_COMMIT == 2

\* sizeof(struct dirent), sizeof(struct journal_header), sizeof(struct rec_header),
\* sizeof(uint32_t), sizeof(dirent.name)
DIRENT_SIZE == 32
JHDR_SIZE == 8
REC_HDR_SIZE == 4
U32_SIZE == 4
NAME_SIZE == 28

\* width of uint16_t (rec_header.type and .size); the uint32_t values of the model
\* (cursor, offsets, block numbers, clock) stay far below 2^32, where they do not wrap
U16 == 65536

JOURNAL_BYTES == JOURNAL_BLOCKS * BLOCK_SIZE
INODES_PER_BLOCK == BLOCK_SIZE \div INODE_SIZE
MAX_ENTRIES == BLOCK_SIZE \div DIRENT_SIZE

\* blocks outside the journal region
PermBlocks == {0} \cup (INODE_BMAP_IDX .. (TOTAL_BLOCKS - 1))

\* ---- block images ----
Zero == [k |-> "zero"]

ZeroInode == [type |-> 0, links |-> 0, size |-> 0, direct |-> <<0, 0, 0, 0, 0, 0, 0, 0>>,
              ctime |-> 0, mtime |-> 0]

ZeroDirent == [inode |-> 0, name |-> ""]

\* an image from the non-zero items of a bitmap / inode block / directory block
Bmap(bits) == IF bits = {} THEN Zero ELSE [k |-> "bmap", v |-> bits]

Itab(f) == IF DOMAIN f = {} THEN Zero ELSE [k |-> "itab", v |-> f]

Dir(f) == IF DOMAIN f = {} THEN Zero ELSE [k |-> "dir", v |-> f]

\* the decoded content of an image read as a bitmap / inode block / directory
BitsOf(img) == CASE img.k = "zero" -> {}
                 [] img.k = "bmap" -> img.v

ItabOf(img) == CASE img.k = "zero" -> << >>
                 [] img.k = "itab" -> img.v

DirOf(img) == CASE img.k = "zero" -> << >>
                [] img.k = "dir" -> img.v

\* struct inode i of an inode-table block, struct dirent i of a directory block
InodeAt(img, i) == IF i \in DOMAIN ItabOf(img) THEN ItabOf(img)[i] ELSE ZeroInode

DirentAt(img, i) == IF i \in DOMAIN DirOf(img) THEN DirOf(img)[i] ELSE ZeroDirent

\* the image with struct inode i / struct dirent i overwritten
SetInode(img, i, ino) ==
    LET f == ItabOf(img)
        D == IF ino = ZeroInode THEN DOMAIN f \ {i} ELSE DOMAIN f \cup {i}
    IN Itab([x \in D |-> IF x = i THEN ino ELSE f[x]])

SetDirent(img, i, e) ==
    LET f == DirOf(img)
        D == IF e = ZeroDirent THEN DOMAIN f \ {i} ELSE DOMAIN f \cup {i}
    IN Dir([x \in D |-> IF x = i THEN e ELSE f[x]])

\* ---- bitmaps (journal.c:104-119) ----
bitmap_test(bitmap, index) == IF index \in BitsOf(bitmap) THEN 1 ELSE 0

bitmap_set(bitmap, index) == Bmap(BitsOf(bitmap) \cup {index})

\* the value returned by a loop `for (i = 0; i < n; ++i) if (hit(i)) return i;`
\* given the set of the i in 0..n-1 that hit: the first of them, or -1
FirstOf(hits) == IF hits = {} THEN -1 ELSE CHOOSE i \in hits : \A j \in hits : i <= j

\* find_free_bit whose loop stops one bit early
find_free_bit_OffByOne(bitmap, max_bits) ==
    FirstOf({i \in 0 .. (max_bits - 2) : bitmap_test(bitmap, i) = 0})

\* find_free_bit that scans from the highest index down
find_free_bit_Downward(bitmap, max_bits) ==
    LET free == {i \in 0 .. (max_bits - 1) : bitmap_test(bitmap, i) = 0}
    IN IF free = {} THEN -1 ELSE CHOOSE i \in free : \A j \in free : j <= i

find_free_bit(bitmap, max_bits) ==
    FirstOf({i \in 0 .. (max_bits - 1) : bitmap_test(bitmap, i) = 0})

\* ---- the journal buffer ----
\* a "part" field <<"part", f, from, to>> holds the bytes from .. to - 1 of field f
FieldLen(f) == IF f[1] = "img" THEN BLOCK_SIZE
               ELSE IF f[1] = "part" THEN f[4] - f[3]
               ELSE 4

\* the buffer body after writing field f at offset o: every older field that
\* shares a byte with it is overwritten
PutField(body, o, f) ==
    LET keep == {p \in DOMAIN body : p + FieldLen(body[p]) <= o \/ p >= o + FieldLen(f)}
    IN [p \in keep \cup {o} |-> IF p = o THEN f ELSE body[p]]

\* memcpy of a struct rec_header to offset o
PutHdr(body, o, type, size) == PutField(body, o, <<"hdr", type, size>>)

\* the struct rec_header that the bytes at offset o decode to
HdrAt(body, o) ==
    CASE o \in DOMAIN body /\ body[o][1] = "hdr" -> [type |-> body[o][2], size |-> body[o][3]]
      [] o \in DOMAIN body /\ body[o][1] = "blk" ->
            [type |-> body[o][2] % U16, size |-> body[o][2] \div U16]
      [] \A p \in DOMAIN body : p + FieldLen(body[p]) <= o \/ p > o -> [type |-> 0, size |-> 0]

\* the uint32_t block number and the block image of the data record at offset o
BlockNoAt(body, o) == CASE (o + REC_HDR_SIZE) \in DOMAIN body /\ body[o + REC_HDR_SIZE][1] = "blk"
                              -> body[o + REC_HDR_SIZE][2]

BlockDataAt(body, o) ==
    CASE (o + REC_HDR_SIZE + U32_SIZE) \in DOMAIN body /\ body[o + REC_HDR_SIZE + U32_SIZE][1] = "img"
            -> body[o + REC_HDR_SIZE + U32_SIZE][2]

\* journal.c:121-138; the persisted journal after init_journal
init_journal(j) ==
    IF j.magic = JOURNAL_MAGIC THEN j
    ELSE [j EXCEPT !.magic = JOURNAL_MAGIC, !.nbytes_used = JHDR_SIZE]

\* journal.c:159-186
append_data_record(jd, block_no, block_data) ==
    LET nbytes == jd.nbytes_used
        record_size == REC_HDR_SIZE + U32_SIZE + BLOCK_SIZE
    IN IF nbytes + record_size > JOURNAL_BLOCKS * BLOCK_SIZE
       THEN [rc |-> -1, jd |-> jd]
       ELSE [rc |-> 0,
             jd |-> [jd EXCEPT
                 !.body = PutField(PutField(PutHdr(jd.body, nbytes, REC_DATA, record_size % U16),
                                            nbytes + REC_HDR_SIZE, <<"blk", block_no>>),
                                   nbytes + REC_HDR_SIZE + U32_SIZE, <<"img", block_data>>),
                 !.nbytes_used = nbytes + record_size]]

\* append_commit_record that leaves the cursor in front of the commit record
append_commit_record_NoAdvance(jd) ==
    LET nbytes == jd.nbytes_used
        record_size == REC_HDR_SIZE
    IN IF nbytes + record_size > JOURNAL_BLOCKS * BLOCK_SIZE
       THEN [rc |-> -1, jd |-> jd]
       ELSE [rc |-> 0,
             jd |-> [jd EXCEPT !.body = PutHdr(jd.body, nbytes, REC_COMMIT, record_size % U16)]]

\* journal.c:188-209
append_commit_record(jd) ==
    LET nbytes == jd.nbytes_used
        record_size == REC_HDR_SIZE
    IN IF nbytes + record_size > JOURNAL_BLOCKS * BLOCK_SIZE
       THEN [rc |-> -1, jd |-> jd]
       ELSE [rc |-> 0,
             jd |-> [jd EXCEPT !.body = PutHdr(jd.body, nbytes, REC_COMMIT, record_size % U16),
                               !.nbytes_used = nbytes + record_size]]

\* ---- create (journal.c:211-314) ----
\* strncpy(name, filename, sizeof(name) - 1); name[sizeof(name) - 1] = '\0'
strncpy_name(filename) ==
    IF Len(filename) > NAME_SIZE - 1 THEN SubSeq(filename, 1, NAME_SIZE - 1) ELSE filename

\* find_free_entry that takes inode number 0 alone as the mark of a free slot
find_free_entry_InodeOnly(root_data_block) ==
    FirstOf({i \in 0 .. (MAX_ENTRIES - 1) : DirentAt(root_data_block, i).inode = 0})

\* journal.c:235-242; the first slot with inode 0 and an empty name, or -1
find_free_entry(root_data_block) ==
    FirstOf({i \in 0 .. (MAX_ENTRIES - 1) : /\ DirentAt(root_data_block, i).inode = 0
                                            /\ DirentAt(root_data_block, i).name = ""})

\* new_inode_data that leaves the link count at zero
new_inode_data_NoLink(now) == [ZeroInode EXCEPT !.type = 1, !.links = 0, !.size = 0,
                                                !.ctime = now, !.mtime = now]

\* journal.c:255-263
new_inode_data(now) == [ZeroInode EXCEPT !.type = 1, !.links = 1, !.size = 0,
                                         !.ctime = now, !.mtime = now]

\* set_root_size that leaves the new entry out of the size
set_root_size_Short(block, free_entry, now) ==
    SetInode(block, 0, [InodeAt(block, 0) EXCEPT !.size = free_entry * DIRENT_SIZE,
                                                 !.mtime = now])

\* journal.c:268-270 and 292-294; the block with the root inode's size and mtime set
set_root_size(block, free_entry, now) ==
    SetInode(block, 0, [InodeAt(block, 0) EXCEPT !.size = (free_entry + 1) * DIRENT_SIZE,
                                                 !.mtime = now])

\* journal.c:250-271; the staged image of the inode-table block of the new inode
staged_inode_block(d, free_inode, free_entry, now) ==
    LET inode_block_idx == free_inode \div INODES_PER_BLOCK
        slot == free_inode % INODES_PER_BLOCK
        withNew == SetInode(d[INODE_START_IDX + inode_block_idx], slot, new_inode_data(now))
    IN IF inode_block_idx = 0 THEN set_root_size(withNew, free_entry, now) ELSE withNew

\* journal.c:275-277; the staged image of the root directory block
staged_dir_block(d, free_inode, free_entry, filename) ==
    SetDirent(d[DATA_START_IDX], free_entry,
              [inode |-> free_inode, name |-> strncpy_name(filename)])

\* stage_records that aims the bitmap record at the data bitmap
stage_records_DataBmap(d, jd, free_inode, free_entry, filename, now) ==
    LET inode_block_idx == free_inode \div INODES_PER_BLOCK
        r1 == append_data_record(jd, DATA_BMAP_IDX, bitmap_set(d[INODE_BMAP_IDX], free_inode))
        r2 == append_data_record(r1.jd, INODE_START_IDX + inode_block_idx,
                                 staged_inode_block(d, free_inode, free_entry, now))
        r3 == IF inode_block_idx # 0
              THEN append_data_record(r2.jd, INODE_START_IDX,
                                      set_root_size(d[INODE_START_IDX], free_entry, now))
              ELSE r2
        r4 == append_data_record(r3.jd, DATA_START_IDX,
                                 staged_dir_block(d, free_inode, free_entry, filename))
        r5 == append_commit_record(r4.jd)
    IN IF r1.rc < 0 THEN r1
       ELSE IF r2.rc < 0 THEN r2
       ELSE IF r3.rc < 0 THEN r3
       ELSE IF r4.rc < 0 THEN r4
       ELSE r5

\* stage_records that appends the directory block before the inode-table blocks
stage_records_DirFirst(d, jd, free_inode, free_entry, filename, now) ==
    LET inode_block_idx == free_inode \div INODES_PER_BLOCK
        r1 == append_data_record(jd, INODE_BMAP_IDX, bitmap_set(d[INODE_BMAP_IDX], free_inode))
        r2 == append_data_record(r1.jd, DATA_START_IDX,
                                 staged_dir_block(d, free_inode, free_entry, filename))
        r3 == append_data_record(r2.jd, INODE_START_IDX + inode_block_idx,
                                 staged_inode_block(d, free_inode, free_entry, now))
        r4 == IF inode_block_idx # 0
              THEN append_data_record(r3.jd, INODE_START_IDX,
                                      set_root_size(d[INODE_START_IDX], free_entry, now))
              ELSE r3
        r5 == append_commit_record(r4.jd)
    IN IF r1.rc < 0 THEN r1
       ELSE IF r2.rc < 0 THEN r2
       ELSE IF r3.rc < 0 THEN r3
       ELSE IF r4.rc < 0 THEN r4
       ELSE r5

\* journal.c:279-312; the journal buffer after the appends, rc = -1 when one failed
stage_records(d, jd, free_inode, free_entry, filename, now) ==
    LET inode_block_idx == free_inode \div INODES_PER_BLOCK
        r1 == append_data_record(jd, INODE_BMAP_IDX, bitmap_set(d[INODE_BMAP_IDX], free_inode))
        r2 == append_data_record(r1.jd, INODE_START_IDX + inode_block_idx,
                                 staged_inode_block(d, free_inode, free_entry, now))
        r3 == IF inode_block_idx # 0
              THEN append_data_record(r2.jd, INODE_START_IDX,
                                      set_root_size(d[INODE_START_IDX], free_entry, now))
              ELSE r2
        r4 == append_data_record(r3.jd, DATA_START_IDX,
                                 staged_dir_block(d, free_inode, free_entry, filename))
        r5 == append_commit_record(r4.jd)
    IN IF r1.rc < 0 THEN r1
       ELSE IF r2.rc < 0 THEN r2
       ELSE IF r3.rc < 0 THEN r3
       ELSE IF r4.rc < 0 THEN r4
       ELSE r5

\* journal.c:211-314; the persisted journal after `create filename` and its outcome
cmd_create(d, j, filename, now) ==
    LET j1 == init_journal(j)
        free_inode == find_free_bit(d[INODE_BMAP_IDX], d[0].v.inode_count)
        free_entry == find_free_entry(d[DATA_START_IDX])
        staged == stage_records(d, j1, free_inode, free_entry, filename, now)
    IN IF free_inode < 0 THEN [journal |-> j1, res |-> "no_free_inodes"]
       ELSE IF free_entry < 0 THEN [journal |-> j1, res |-> "directory_full"]
       ELSE IF staged.rc < 0 THEN [journal |-> j1, res |-> "journal_full"]
       ELSE [journal |-> staged.jd, res |-> "ok"]

\* ---- state ----
\* disk:    the permanent region, block number -> image (blocks 0 and 17..84)
\* journal: the persisted journal region (blocks 1..16)
\* pc, jmem, offset, transaction_count: the position of a running install,
\*          its journal_data buffer and the locals of its replay loop
\* out:     the last command, its argument and what it reported: res its outcome,
\*          count the transactions it counted, err the replay fault it printed
\* pre:     the image and `out` as they were when the last command started; for
\*          an install that is run again after a killed install, the image as
\*          it was when the first killed install started
\* left:    the number of commands that may still be started
VARIABLES disk, journal, pc, jmem, offset, transaction_count, out, pre, left

vars == <<disk, journal, pc, jmem, offset, transaction_count, out, pre, left>>

\* no command has run yet
NoOut == [cmd |-> "none", arg |-> "", res |-> "ok", count |-> 0, err |-> "none"]

NoMem == [magic |-> 0, nbytes_used |-> 0, body |-> << >>]

\* ---- bounds of the exploration ----
\* names and clock values given to create
MaxTime == 1
MaxVaried == 2
MaxPending == 2
MaxCmds == 2
MaxRecs == 3

ShortName == "a.txt"

\* 27 bytes, the longest name that fits, and 28 bytes, the shortest that does not
FitName == "abcdefghijklmnopqrstuvwxyz0"

LongName == "abcdefghijklmnopqrstuvwxyz01"

Times == 1 .. MaxTime

\* ---- the formatted image (the mkfs collaborator) ----
FormattedSuperblock ==
    [k |-> "sb",
     v |-> [magic |-> FS_MAGIC, block_size |-> BLOCK_SIZE, total_blocks |-> TOTAL_BLOCKS,
            inode_count |-> INODE_BLOCKS * INODES_PER_BLOCK, journal_block |-> JOURNAL_BLOCK_IDX,
            inode_bitmap |-> INODE_BMAP_IDX, data_bitmap |-> DATA_BMAP_IDX,
            inode_start |-> INODE_START_IDX, data_start |-> DATA_START_IDX]]

RootInode == [ZeroInode EXCEPT !.type = 2, !.links = 2, !.size = 2 * DIRENT_SIZE,
                               !.direct = <<DATA_START_IDX, 0, 0, 0, 0, 0, 0, 0>>]

FormattedDisk ==
    [b \in PermBlocks |->
        CASE b = 0 -> FormattedSuperblock
          [] b = INODE_BMAP_IDX -> Bmap({0})
          [] b = DATA_BMAP_IDX -> Bmap({0})
          [] b = INODE_START_IDX -> Itab(0 :> RootInode)
          [] b = DATA_START_IDX -> Dir((0 :> [inode |-> 0, name |-> "."]) @@
                                       (1 :> [inode |-> 0, name |-> ".."]))
          [] OTHER -> Zero]

\* the journal region of a formatted image: all zero
BlankJournal == [magic |-> 0, nbytes_used |-> 0, body |-> << >>]

\* ---- commands ----
\* Create that writes the new directory block in place as well as staging it
Create_InPlace(filename, now) ==
    /\ pc = "idle"
    /\ LET r == cmd_create(disk, journal, filename, now)
           free_inode == find_free_bit(disk[INODE_BMAP_IDX], disk[0].v.inode_count)
           free_entry == find_free_entry(disk[DATA_START_IDX])
       IN /\ journal' = r.journal
          /\ out' = [cmd |-> "create", arg |-> filename, res |-> r.res, count |-> 0,
                     err |-> "none"]
          /\ disk' = IF r.res = "ok"
                     THEN [disk EXCEPT ![DATA_START_IDX] =
                              staged_dir_block(disk, free_inode, free_entry, filename)]
                     ELSE disk
    /\ pre' = [disk |-> disk, journal |-> journal, out |-> out]
    /\ UNCHANGED <<pc, jmem, offset, transaction_count>>

\* journal.c:394-401; `create filename` run at clock value now
Create(filename, now) ==
    /\ pc = "idle"
    /\ LET r == cmd_create(disk, journal, filename, now)
       IN /\ journal' = r.journal
          /\ out' = [cmd |-> "create", arg |-> filename, res |-> r.res, count |-> 0,
                     err |-> "none"]
    /\ pre' = [disk |-> disk, journal |-> journal, out |-> out]
    /\ UNCHANGED <<disk, pc, jmem, offset, transaction_count>>

InstallOut(res, count, err) ==
    [cmd |-> "install", arg |-> "", res |-> res, count |-> count, err |-> err]

\* InstallBegin that writes the cursor reset to the journal region before the replay
InstallBegin_ResetFirst ==
    /\ pc = "idle"
    /\ pre' = IF out.cmd = "install" /\ out.res = "killed" THEN [pre EXCEPT !.out = out]
              ELSE [disk |-> disk, journal |-> journal, out |-> out]
    /\ IF journal.magic # JOURNAL_MAGIC
       THEN /\ out' = InstallOut("not_initialized", 0, "none")
            /\ UNCHANGED <<pc, jmem, offset, transaction_count, journal>>
       ELSE IF journal.nbytes_used = JHDR_SIZE
       THEN /\ out' = InstallOut("empty", 0, "none")
            /\ UNCHANGED <<pc, jmem, offset, transaction_count, journal>>
       ELSE /\ pc' = "replay"
            /\ jmem' = journal
            /\ journal' = [journal EXCEPT !.nbytes_used = JHDR_SIZE]
            /\ offset' = JHDR_SIZE
            /\ transaction_count' = 0
            /\ out' = InstallOut("running", 0, "none")
    /\ UNCHANGED disk

\* journal.c:316-332; install up to the first test of the replay loop
InstallBegin ==
    /\ pc = "idle"
    /\ pre' = IF out.cmd = "install" /\ out.res = "killed" THEN [pre EXCEPT !.out = out]
              ELSE [disk |-> disk, journal |-> journal, out |-> out]
    /\ IF journal.magic # JOURNAL_MAGIC
       THEN /\ out' = InstallOut("not_initialized", 0, "none")
            /\ UNCHANGED <<pc, jmem, offset, transaction_count>>
       ELSE IF journal.nbytes_used = JHDR_SIZE
       THEN /\ out' = InstallOut("empty", 0, "none")
            /\ UNCHANGED <<pc, jmem, offset, transaction_count>>
       ELSE /\ pc' = "replay"
            /\ jmem' = journal
            /\ offset' = JHDR_SIZE
            /\ transaction_count' = 0
            /\ out' = InstallOut("running", 0, "none")
    /\ UNCHANGED <<disk, journal>>

\* InstallStep that leaves the loop after the first commit record
InstallStep_FirstOnly ==
    /\ pc = "replay"
    /\ offset < jmem.nbytes_used
    /\ LET rec_hdr == HdrAt(jmem.body, offset)
       IN IF offset + REC_HDR_SIZE > jmem.nbytes_used
          THEN /\ pc' = "flush"
               /\ out' = InstallOut("running", 0, "incomplete_header")
               /\ UNCHANGED <<disk, offset, transaction_count>>
          ELSE IF rec_hdr.type = REC_DATA
          THEN IF offset + REC_HDR_SIZE + U32_SIZE + BLOCK_SIZE > jmem.nbytes_used
               THEN /\ pc' = "flush"
                    /\ out' = InstallOut("running", 0, "incomplete_data")
                    /\ UNCHANGED <<disk, offset, transaction_count>>
               ELSE /\ disk' = [disk EXCEPT ![BlockNoAt(jmem.body, offset)] =
                                                BlockDataAt(jmem.body, offset)]
                    /\ offset' = offset + rec_hdr.size
                    /\ UNCHANGED <<pc, transaction_count, out>>
          ELSE IF rec_hdr.type = REC_COMMIT
          THEN /\ transaction_count' = transaction_count + 1
               /\ offset' = offset + rec_hdr.size
               /\ pc' = "flush"
               /\ UNCHANGED <<disk, out>>
          ELSE /\ pc' = "flush"
               /\ out' = InstallOut("running", 0, "unknown_type")
               /\ UNCHANGED <<disk, offset, transaction_count>>
    /\ UNCHANGED <<journal, jmem, pre>>

\* journal.c:334-365; one iteration of the replay loop
InstallStep ==
    /\ pc = "replay"
    /\ offset < jmem.nbytes_used
    /\ LET rec_hdr == HdrAt(jmem.body, offset)
       IN IF offset + REC_HDR_SIZE > jmem.nbytes_used
          THEN /\ pc' = "flush"
               /\ out' = InstallOut("running", 0, "incomplete_header")
               /\ UNCHANGED <<disk, offset, transaction_count>>
          ELSE IF rec_hdr.type = REC_DATA
          THEN IF offset + REC_HDR_SIZE + U32_SIZE + BLOCK_SIZE > jmem.nbytes_used
               THEN /\ pc' = "flush"
                    /\ out' = InstallOut("running", 0, "incomplete_data")
                    /\ UNCHANGED <<disk, offset, transaction_count>>
               ELSE /\ disk' = [disk EXCEPT ![BlockNoAt(jmem.body, offset)] =
                                                BlockDataAt(jmem.body, offset)]
                    /\ offset' = offset + rec_hdr.size
                    /\ UNCHANGED <<pc, transaction_count, out>>
          ELSE IF rec_hdr.type = REC_COMMIT
          THEN /\ transaction_count' = transaction_count + 1
               /\ offset' = offset + rec_hdr.size
               /\ UNCHANGED <<disk, pc, out>>
          ELSE /\ pc' = "flush"
               /\ out' = InstallOut("running", 0, "unknown_type")
               /\ UNCHANGED <<disk, offset, transaction_count>>
    /\ UNCHANGED <<journal, jmem, pre>>

\* InstallFinish with the cursor reset left out
InstallFinish_NoReset ==
    /\ IF pc = "replay" THEN ~(offset < jmem.nbytes_used) ELSE pc = "flush"
    /\ journal' = jmem
    /\ out' = InstallOut("done", transaction_count, out.err)
    /\ pc' = "idle"
    /\ jmem' = NoMem
    /\ offset' = 0
    /\ transaction_count' = 0
    /\ UNCHANGED <<disk, pre>>

\* InstallFinish that returns without clearing the journal when the loop was
\* left by a break
InstallFinish_BreakReturns ==
    /\ IF pc = "replay" THEN ~(offset < jmem.nbytes_used) ELSE pc = "flush"
    /\ journal' = IF pc = "flush" THEN journal ELSE [jmem EXCEPT !.nbytes_used = JHDR_SIZE]
    /\ out' = InstallOut("done", transaction_count, out.err)
    /\ pc' = "idle"
    /\ jmem' = NoMem
    /\ offset' = 0
    /\ transaction_count' = 0
    /\ UNCHANGED <<disk, pre>>

\* journal.c:367-376; the loop has ended: reset the cursor and write the journal back
InstallFinish ==
    /\ IF pc = "replay" THEN ~(offset < jmem.nbytes_used) ELSE pc = "flush"
    /\ journal' = [jmem EXCEPT !.nbytes_used = JHDR_SIZE]
    /\ out' = InstallOut("done", transaction_count, out.err)
    /\ pc' = "idle"
    /\ jmem' = NoMem
    /\ offset' = 0
    /\ transaction_count' = 0
    /\ UNCHANGED <<disk, pre>>

\* ---- from a formatted image ----
Names == {ShortName, LongName}

\* the number of transactions staged in the persisted journal
Staged(j) ==
    IF j.magic # JOURNAL_MAGIC THEN 0
    ELSE Cardinality({o \in DOMAIN j.body : /\ o < j.nbytes_used
                                            /\ j.body[o][1] = "hdr"
                                            /\ j.body[o][2] = REC_COMMIT})

NextInode == find_free_bit(disk[INODE_BMAP_IDX], disk[0].v.inode_count)

\* The operator's choices that are explored: at most MaxPending creates between
\* two installs; once more than MaxVaried inodes are allocated, every create is
\* `create a.txt` at clock value 1 on an installed journal.
Explored(filename, now) ==
    /\ Staged(journal) < MaxPending
    /\ \/ NextInode \in 0 .. MaxVaried
       \/ filename = ShortName /\ now = 1 /\ Staged(journal) = 0

Init ==
    /\ disk = FormattedDisk
    /\ journal = BlankJournal
    /\ pc = "idle"
    /\ jmem = NoMem
    /\ offset = 0
    /\ transaction_count = 0
    /\ out = NoOut
    /\ pre = [disk |-> FormattedDisk, journal |-> BlankJournal, out |-> NoOut]
    /\ left = 0

Next ==
    /\ \/ \E filename \in Names, now \in Times : Explored(filename, now) /\ Create(filename, now)
       \/ InstallBegin
       \/ InstallStep
       \/ InstallFinish
    /\ UNCHANGED left

Spec == Init /\ [][Next]_vars

\* ---- from an arbitrary image ----
\* A file inode as create writes it, and a permanent region in which the file
\* inodes in `files` are allocated, file i being named by the entry in slot slotOf[i].
FileInode == [ZeroInode EXCEPT !.type = 1, !.links = 1, !.ctime = 1, !.mtime = 1]

MaxOf(S) == CHOOSE x \in S : \A y \in S : y <= x

DiskWith(files, slotOf) ==
    LET lastSlot == MaxOf({1} \cup {slotOf[i] : i \in files})
        root == [RootInode EXCEPT !.size = (lastSlot + 1) * DIRENT_SIZE]
        itab(b) == LET mine == {i \in files \cup {0} : i \div INODES_PER_BLOCK = b}
                   IN Itab([x \in {i % INODES_PER_BLOCK : i \in mine} |->
                               IF b = 0 /\ x = 0 THEN root ELSE FileInode])
        dirf == [s \in {0, 1} \cup {slotOf[i] : i \in files} |->
                    IF s = 0 THEN [inode |-> 0, name |-> "."]
                    ELSE IF s = 1 THEN [inode |-> 0, name |-> ".."]
                    ELSE [inode |-> CHOOSE i \in files : slotOf[i] = s, name |-> ShortName]]
    IN [FormattedDisk EXCEPT ![INODE_BMAP_IDX] = Bmap({0} \cup files),
                             ![INODE_START_IDX] = itab(0),
                             ![INODE_START_IDX + 1] = itab(1),
                             ![DATA_START_IDX] = Dir(dirf)]

\* inodes 1..n allocated in slots 2..n+1, as n create+install cycles leave them
DiskAfter(n) == DiskWith(1 .. n, [i \in 1 .. n |-> i + 1])

\* inode 2 allocated in slot 3: inode 1 and slot 2 are holes
SparseDisk == DiskWith({2}, [i \in {2} |-> 3])

\* every slot of the root directory names inode 1
FullDirDisk ==
    [DiskAfter(1) EXCEPT ![DATA_START_IDX] =
        Dir([s \in 0 .. (MAX_ENTRIES - 1) |->
                IF s = 0 THEN [inode |-> 0, name |-> "."]
                ELSE IF s = 1 THEN [inode |-> 0, name |-> ".."]
                ELSE [inode |-> 1, name |-> ShortName]])]

PermImages == {FormattedDisk, DiskAfter(INODES_PER_BLOCK - 2), DiskAfter(INODES_PER_BLOCK - 1),
               DiskAfter(INODE_BLOCKS * INODES_PER_BLOCK - 1), SparseDisk, FullDirDisk}

\* an initialized journal whose content is zero, with its cursor at c
CursorOnly(c) == [magic |-> JOURNAL_MAGIC, nbytes_used |-> c, body |-> << >>]

DataRecSize == REC_HDR_SIZE + U32_SIZE + BLOCK_SIZE

\* Cursors: empty; room for three data records but not for the commit; room for
\* exactly one data record; room for none; the end of the region.
Cursors == {JHDR_SIZE, JOURNAL_BYTES - 3 * DataRecSize, JOURNAL_BYTES - DataRecSize,
            JOURNAL_BYTES - DataRecSize + 4, JOURNAL_BYTES}

SimpleJournals == {BlankJournal} \cup {CursorOnly(c) : c \in Cursors}

\* Records of a hand-made journal: the header fields as declared, and the block
\* number and image that follow the header (blk = -1: nothing follows).
\* Data records aim at blocks of the permanent region, with an image of the kind
\* that block holds.
\* the largest size a record header can declare
OversizedLen == U16 - 1

RecD == [type |-> REC_DATA, size |-> DataRecSize, blk |-> DATA_START_IDX,
         img |-> SetDirent(FormattedDisk[DATA_START_IDX], 9, [inode |-> 5, name |-> "j.txt"])]

RecDL == [type |-> REC_DATA, size |-> OversizedLen, blk |-> INODE_BMAP_IDX, img |-> Bmap({0, 5})]

RecC == [type |-> REC_COMMIT, size |-> REC_HDR_SIZE, blk |-> -1, img |-> Zero]

RecCL == [type |-> REC_COMMIT, size |-> OversizedLen, blk |-> -1, img |-> Zero]

RecX == [type |-> 3, size |-> REC_HDR_SIZE, blk |-> -1, img |-> Zero]

RecAlphabet == {RecD, RecDL, RecC, RecCL, RecX}

\* the bytes a record occupies
RecBytes(r) == IF r.blk >= 0 THEN DataRecSize ELSE REC_HDR_SIZE

RECURSIVE LayFrom(_, _, _, _)
LayFrom(recs, i, o, body) ==
    IF i > Len(recs) THEN [body |-> body, end |-> o]
    ELSE LET r == recs[i]
             b1 == PutHdr(body, o, r.type, r.size)
             b2 == IF r.blk >= 0
                   THEN PutField(PutField(b1, o + REC_HDR_SIZE, <<"blk", r.blk>>),
                                 o + REC_HDR_SIZE + U32_SIZE, <<"img", r.img>>)
                   ELSE b1
         IN LayFrom(recs, i + 1, o + RecBytes(r), b2)

\* the journal holding the records recs back to back, its cursor cut bytes
\* before the end of the last one
Crafted(recs, cut) ==
    LET l == LayFrom(recs, 1, JHDR_SIZE, << >>)
    IN [magic |-> JOURNAL_MAGIC, nbytes_used |-> l.end - cut, body |-> l.body]

CraftedJournals ==
    {Crafted(recs, cut) : recs \in UNION {[1 .. n -> RecAlphabet] : n \in 1 .. MaxRecs},
                          cut \in {0, 2}}

AnyNames == {ShortName, FitName, LongName, ""}

\* the cursor lies inside a field: a record appended there would be spliced into
\* that field, which the journal model (whole fields only) does not describe
Ragged(j) == \E p \in DOMAIN j.body : p < j.nbytes_used /\ p + FieldLen(j.body[p]) > j.nbytes_used

InitAny ==
    /\ \/ disk \in PermImages /\ journal \in SimpleJournals
       \/ disk = FormattedDisk /\ journal \in CraftedJournals
    /\ pc = "idle"
    /\ jmem = NoMem
    /\ offset = 0
    /\ transaction_count = 0
    /\ out = NoOut
    /\ pre = [disk |-> disk, journal |-> journal, out |-> NoOut]
    /\ left = MaxCmds

NextAny ==
    \/ /\ left > 0
       /\ left' = left - 1
       /\ ~Ragged(init_journal(journal))
       /\ \E filename \in AnyNames, now \in Times : Create(filename, now)
    \/ /\ left > 0
       /\ left' = left - 1
       /\ InstallBegin
    \/ InstallStep /\ UNCHANGED left
    \/ InstallFinish /\ UNCHANGED left

SpecAny == InitAny /\ [][NextAny]_vars

\* ---- reading the permanent region ----
\* struct inode number i of the inode table
InodeOf(d, i) == InodeAt(d[INODE_START_IDX + (i \div INODES_PER_BLOCK)], i % INODES_PER_BLOCK)

InodeNumbers == 0 .. (INODE_BLOCKS * INODES_PER_BLOCK - 1)

Slots == 0 .. (MAX_ENTRIES - 1)

\* the last command was an install that ran to its end
InstallDone == pc = "idle" /\ out.cmd = "install" /\ out.res = "done"

\* ---- the replay of section 4.1: buffer a transaction, flush it at its commit ----
RECURSIVE FlushFrom(_, _, _)
FlushFrom(d, buf, i) ==
    IF i > Len(buf) THEN d ELSE FlushFrom([d EXCEPT ![buf[i][1]] = buf[i][2]], buf, i + 1)

\* halt: why the scan stopped; pending: the data records read since the last commit
RECURSIVE BufferedFrom(_, _, _, _, _)
BufferedFrom(d, j, o, buf, count) ==
    LET stop(why) == [disk |-> d, count |-> count, pending |-> buf, halt |-> why]
        hdr == HdrAt(j.body, o)
    IN IF ~(o < j.nbytes_used) THEN stop("none")
       ELSE IF o + REC_HDR_SIZE > j.nbytes_used THEN stop("incomplete_header")
       ELSE IF hdr.type \notin {REC_DATA, REC_COMMIT} THEN stop("unknown_type")
       ELSE IF hdr.size < REC_HDR_SIZE \/ o + hdr.size > j.nbytes_used THEN stop("oversized")
       ELSE IF hdr.type = REC_DATA
       THEN IF o + DataRecSize > j.nbytes_used THEN stop("incomplete_data")
            ELSE BufferedFrom(d, j, o + hdr.size,
                              Append(buf, <<BlockNoAt(j.body, o), BlockDataAt(j.body, o)>>), count)
       ELSE BufferedFrom(FlushFrom(d, buf, 1), j, o + hdr.size, << >>, count + 1)

BufferedReplay(d, j) == BufferedFrom(d, j, JHDR_SIZE, << >>, 0)

\* ---- C1 ----
\* C1 (atomicity of install): when the journal that install replayed ends with
\* data records that no commit record closes (the commit is missing or cut off
\* by the cursor), the permanent region after install is the one obtained by
\* applying only the transactions closed by a commit record.
TrailingUncommitted(j) ==
    /\ BufferedReplay(FormattedDisk, j).pending # << >>
    /\ BufferedReplay(FormattedDisk, j).halt \in {"none", "incomplete_header"}

C1_Atomicity ==
    (InstallDone /\ TrailingUncommitted(pre.journal))
        => disk = BufferedReplay(pre.disk, pre.journal).disk

\* ---- C9 ----
\* C9 (malformed framing halts replay): when install meets a record whose
\* declared size runs past the cursor or whose type is neither data nor commit,
\* the permanent region after install holds exactly the transactions committed
\* before that record, and the count install reports is their number.
MalformedFraming(j) == BufferedReplay(FormattedDisk, j).halt \in {"oversized", "unknown_type"}

C9_MalformedHalts ==
    (InstallDone /\ MalformedFraming(pre.journal))
        => /\ disk = BufferedReplay(pre.disk, pre.journal).disk
           /\ out.count = BufferedReplay(pre.disk, pre.journal).count

\* ---- C10 ----
\* C10 (install always clears the journal): when install has run on a journal
\* with valid magic and finished, whether the replay reached the cursor or
\* stopped at a malformed record, the persisted cursor is the empty-header size
\* and the magic is the one the journal had, so a create that follows appends
\* its first record right after the header.
InstallCompleted == pc = "idle" /\ out.cmd = "install" /\ out.res \in {"done", "empty"}

C10_InstallClears ==
    InstallCompleted
        => /\ journal.nbytes_used = JHDR_SIZE
           /\ journal.magic = JOURNAL_MAGIC
           /\ journal.magic = pre.journal.magic
           /\ init_journal(journal).nbytes_used = JHDR_SIZE

\* an install that stopped at a malformed record has finished
C10_Witness ==
    /\ InstallDone
    /\ out.err # "none"
    /\ pre.journal.nbytes_used > JHDR_SIZE
    /\ journal.nbytes_used = JHDR_SIZE

\* ---- C5 ----
\* C5 (idempotence of install): when install runs right after a completed
\* install, it returns at once on the empty journal: the permanent region is
\* the one the first install left, and the persisted cursor was the
\* empty-header size after the first install and is so after the second.
SecondInstall == out.cmd = "install" /\ pre.out.cmd = "install" /\ pre.out.res \in {"done", "empty"}

C5_InstallIdempotent ==
    SecondInstall
        => /\ pc = "idle"
           /\ disk = pre.disk
           /\ pre.journal.nbytes_used = JHDR_SIZE
           /\ journal.nbytes_used = JHDR_SIZE

\* the second install follows one that replayed a journal with a commit record
C5_Witness == SecondInstall /\ pre.out.res = "done" /\ pre.out.count > 0 /\ pc = "idle"

\* ---- C7 ----
\* C7 (create never mutates the permanent region): after every create,
\* successful or failing, every block outside the journal region is what it
\* was when the create started.
C7_CreateFrame == (pc = "idle" /\ out.cmd = "create") => disk = pre.disk

\* a successful create has changed the journal
C7_Witness == pc = "idle" /\ out.cmd = "create" /\ out.res = "ok" /\ journal # pre.journal

\* ---- C8 ----
\* C8 (a failing create performs no journal write): when create fails for lack
\* of a free inode, of a directory slot or of journal space, the persisted
\* journal (magic and cursor included) and the permanent region are what they
\* were when the create started, whether or not the journal was initialized.
CreateFailed == pc = "idle" /\ out.cmd = "create" /\ out.res # "ok"

C8_FailingCreateWritesNothing == CreateFailed => (journal = pre.journal /\ disk = pre.disk)

\* ---- C2 ----
\* C2 (round trip of create then install): when install has replayed a
\* journal that held exactly the one transaction of a successful create of a
\* name shorter than 28 bytes, the inode that create chose has its bitmap bit
\* set and type file, the root directory slot that create chose holds that
\* inode number and exactly that name, and the root inode's size is
\* 32 * (slot + 1); the inode may live in either inode-table block.
ChosenInode(d) == find_free_bit(d[INODE_BMAP_IDX], d[0].v.inode_count)

ChosenSlot(d) == find_free_entry(d[DATA_START_IDX])

\* the bytes of the transaction that create stages for inode ino
OneTransaction(ino) ==
    (IF ino \div INODES_PER_BLOCK = 0 THEN 3 ELSE 4) * DataRecSize + REC_HDR_SIZE

CreateThenInstall ==
    /\ InstallDone
    /\ pre.out.cmd = "create"
    /\ pre.out.res = "ok"
    /\ Len(pre.out.arg) < NAME_SIZE
    /\ pre.journal.nbytes_used = JHDR_SIZE + OneTransaction(ChosenInode(pre.disk))

RoundTripHolds ==
    LET ino == ChosenInode(pre.disk)
        slot == ChosenSlot(pre.disk)
    IN /\ bitmap_test(disk[INODE_BMAP_IDX], ino) = 1
       /\ InodeOf(disk, ino).type = 1
       /\ DirentAt(disk[DATA_START_IDX], slot) = [inode |-> ino, name |-> pre.out.arg]
       /\ InodeOf(disk, 0).size = DIRENT_SIZE * (slot + 1)

C2_RoundTrip == CreateThenInstall => RoundTripHolds

\* the round trip of an inode of the second inode-table block, named by 27 bytes
C2_Witness ==
    /\ CreateThenInstall
    /\ ChosenInode(pre.disk) >= INODES_PER_BLOCK
    /\ Len(pre.out.arg) = NAME_SIZE - 1
    /\ RoundTripHolds

\* ---- C3 ----
\* C3 (consistency after every cycle): from a formatted image, whenever no
\* install is running, for every inode index the bitmap bit is set exactly when
\* the inode's type is not 0, no two live inodes share a non-zero direct
\* pointer, and every file inode has one link and is named by exactly one
\* entry of the root directory.
PointersOf(d, i) == {InodeOf(d, i).direct[n] : n \in 1 .. 8} \ {0}

\* the non-zero entries of the root directory that hold inode number i
EntriesNaming(d, i) ==
    {s \in DOMAIN DirOf(d[DATA_START_IDX]) : DirOf(d[DATA_START_IDX])[s].inode = i}

Consistent(d) ==
    LET live == {i \in InodeNumbers : InodeOf(d, i).type # 0}
        pointing == {i \in live : PointersOf(d, i) # {}}
    IN /\ live = BitsOf(d[INODE_BMAP_IDX]) \cap InodeNumbers
       /\ \A i \in pointing : \A j \in pointing :
              i # j => PointersOf(d, i) \cap PointersOf(d, j) = {}
       /\ \A i \in live : InodeOf(d, i).type = 1
              => InodeOf(d, i).links = 1 /\ Cardinality(EntriesNaming(d, i)) = 1

C3_ConsistentAfterCycle == pc = "idle" => Consistent(disk)

\* the 63rd cycle has completed
C3_Witness == InstallDone /\ out.count = 1 /\ BitsOf(disk[INODE_BMAP_IDX]) = InodeNumbers

\* ---- C4 ----
\* C4 (exhaustion): from a formatted image, all 64 inode bits are set exactly
\* when 63 files have been installed; a create run then reports no free inodes
\* and leaves the persisted journal as it was, and a create run before that
\* fails neither for lack of an inode nor for lack of a directory slot.
FilesInstalled(d) ==
    Cardinality({s \in DOMAIN DirOf(d[DATA_START_IDX]) : DirOf(d[DATA_START_IDX])[s].inode # 0})

C4_Exhaustion ==
    /\ pc = "idle" =>
          (BitsOf(disk[INODE_BMAP_IDX]) = InodeNumbers <=> FilesInstalled(disk) = 63)
    /\ (pc = "idle" /\ out.cmd = "create") =>
          IF FilesInstalled(pre.disk) = 63
          THEN out.res = "no_free_inodes" /\ journal = pre.journal
          ELSE out.res \notin {"no_free_inodes", "directory_full"}

\* the 64th create has failed
C4_Witness ==
    /\ pc = "idle"
    /\ out.cmd = "create"
    /\ out.res = "no_free_inodes"
    /\ FilesInstalled(pre.disk) = 63
    /\ journal = pre.journal

\* ---- C6 ----
\* C6 (deterministic lowest-index allocation): from a formatted image, when k
\* cycles have installed a file, the allocated inodes are 0..k, inode i is
\* named by root slot i + 1 for i in 1..k, the slots above are free and the
\* root inode's size is 32 * (k + 2); an install that applies a transaction
\* sets the lowest clear bit of the inode bitmap and no other.
C6_LowestIndex ==
    LET k == Cardinality(BitsOf(disk[INODE_BMAP_IDX])) - 1
    IN /\ pc = "idle" =>
           /\ BitsOf(disk[INODE_BMAP_IDX]) = 0 .. k
           /\ \A i \in 1 .. k : DirentAt(disk[DATA_START_IDX], i + 1).inode = i
           /\ \A s \in Slots : s > k + 1 => DirentAt(disk[DATA_START_IDX], s) = ZeroDirent
           /\ InodeOf(disk, 0).size = DIRENT_SIZE * (k + 2)
       /\ (InstallDone /\ out.count > 0) =>
           /\ ChosenInode(pre.disk) = k
           /\ BitsOf(disk[INODE_BMAP_IDX]) = BitsOf(pre.disk[INODE_BMAP_IDX]) \cup {k}
           /\ \A i \in 0 .. (k - 1) : bitmap_test(pre.disk[INODE_BMAP_IDX], i) = 1

\* the first cycle: inode 1, slot 2, root size 96
C6_Witness ==
    /\ InstallDone
    /\ out.count = 1
    /\ BitsOf(disk[INODE_BMAP_IDX]) = {0, 1}
    /\ DirentAt(disk[DATA_START_IDX], 2) = [inode |-> 1, name |-> ShortName]
    /\ InodeOf(disk, 0).size = 96

\* ---- journals with records that declare size 0 ----
\* a data record and a commit record whose header declares size 0
RecD0 == [RecD EXCEPT !.size = 0]

RecC0 == [RecC EXCEPT !.size = 0]

MaxCount == 3

ZeroSizeJournals ==
    {Crafted(recs, 0) :
        recs \in {r \in UNION {[1 .. n -> RecAlphabet \cup {RecD0, RecC0}] : n \in 1 .. MaxRecs} :
                     \E i \in 1 .. Len(r) : r[i].size = 0}}

InitZero ==
    /\ disk = FormattedDisk
    /\ journal \in ZeroSizeJournals
    /\ pc = "idle"
    /\ jmem = NoMem
    /\ offset = 0
    /\ transaction_count = 0
    /\ out = NoOut
    /\ pre = [disk |-> disk, journal |-> journal, out |-> NoOut]
    /\ left = 1

\* one install; the count of a replay that does not end is followed up to MaxCount
NextZero ==
    \/ /\ left > 0
       /\ left' = left - 1
       /\ InstallBegin
    \/ transaction_count < MaxCount /\ InstallStep /\ UNCHANGED left
    \/ InstallFinish /\ UNCHANGED left

SpecZero == InitZero /\ [][NextZero]_vars

\* ---- C11 ----
\* C11 (install terminates on every journal): on a journal with valid magic,
\* whatever size its records declare (0 included), every iteration of the
\* replay loop that does not leave the loop moves the scan offset forward, so
\* the loop reaches the cursor reset after finitely many iterations.
C11_OffsetAdvances ==
    [][(pc = "replay" /\ pc' = "replay") => offset' > offset]_vars

\* ---- interrupted commands ----
\* the fields of body cut down to the bytes lo .. hi - 1 of the journal region;
\* a field that crosses lo or hi leaves the part of it that lies inside
Clip(body, lo, hi) ==
    LET touch == {p \in DOMAIN body : p < hi /\ p + FieldLen(body[p]) > lo}
        start(p) == IF p < lo THEN lo ELSE p
        whole(f) == IF f[1] = "part" THEN f[2] ELSE f
        from(f) == IF f[1] = "part" THEN f[3] ELSE 0
        over(p) == IF p + FieldLen(body[p]) > hi THEN p + FieldLen(body[p]) - hi ELSE 0
        piece(p) == IF p >= lo /\ p + FieldLen(body[p]) <= hi THEN body[p]
                    ELSE <<"part", whole(body[p]), from(body[p]) + (start(p) - p),
                           from(body[p]) + FieldLen(body[p]) - over(p)>>
    IN [q \in {start(p) : p \in touch} |-> piece(CHOOSE p \in touch : start(p) = q)]

\* two parts of one field that lie end to end are that field again
Join(body) ==
    LET follows(p, q) == /\ body[p][1] = "part" /\ body[q][1] = "part"
                         /\ body[p][2] = body[q][2]
                         /\ body[p][4] = body[q][3]
                         /\ q = p + FieldLen(body[p])
        second == {q \in DOMAIN body : \E p \in DOMAIN body : follows(p, q)}
        joined(p) ==
            IF \E q \in DOMAIN body : follows(p, q)
            THEN LET q == CHOOSE r \in DOMAIN body : follows(p, r)
                 IN IF body[p][3] = 0 /\ body[q][4] = FieldLen(body[p][2])
                    THEN body[p][2]
                    ELSE <<"part", body[p][2], body[p][3], body[q][4]>>
            ELSE body[p]
    IN [p \in DOMAIN body \ second |-> joined(p)]

\* journal.c:153-157; the persisted journal after the first n of the 16 block
\* writes of write_journal(journal_data), on a region that held old: the blocks
\* are written in ascending order, the one with the header first
write_journal(journal_data, old, n) ==
    IF n = 0 THEN old
    ELSE [magic |-> journal_data.magic,
          nbytes_used |-> journal_data.nbytes_used,
          body |-> Join(Clip(journal_data.body, 0, n * BLOCK_SIZE) @@
                        Clip(old.body, n * BLOCK_SIZE, JOURNAL_BLOCKS * BLOCK_SIZE))]

\* no record of the journal is torn
Whole(j) == \A p \in DOMAIN j.body : j.body[p][1] # "part"

\* journal.c:211-314; `create filename` killed at stage k: -1 before init_journal,
\* 0 after it and before write_journal, k > 0 after k block writes of write_journal
CreateKilled(filename, now, k) ==
    /\ pc = "idle"
    /\ LET r == cmd_create(disk, journal, filename, now)
       IN /\ k > 0 => r.res = "ok"
          /\ journal' = IF k < 0 THEN journal
                        ELSE write_journal(r.journal, init_journal(journal), k)
          /\ out' = [cmd |-> "create", arg |-> filename, res |-> "killed",
                     count |-> IF k > 0 THEN k ELSE 0,
                     err |-> IF k < 0 THEN "at_start"
                             ELSE IF k = 0 THEN "before_write" ELSE "in_write"]
    /\ pre' = [disk |-> disk, journal |-> journal, out |-> out]
    /\ UNCHANGED <<disk, pc, jmem, offset, transaction_count>>

\* journal.c:334-369; install killed: n = 0 in or after the replay loop, before
\* write_journal is called, n > 0 after n block writes of the final write_journal
InstallKilled(n) ==
    /\ pc # "idle"
    /\ n > 0 => IF pc = "replay" THEN ~(offset < jmem.nbytes_used) ELSE pc = "flush"
    /\ journal' = write_journal([jmem EXCEPT !.nbytes_used = JHDR_SIZE], journal, n)
    /\ out' = InstallOut("killed", n, out.err)
    /\ pc' = "idle"
    /\ jmem' = NoMem
    /\ offset' = 0
    /\ transaction_count' = 0
    /\ UNCHANGED <<disk, pre>>

MaxCrashCmds == 2

\* the journal of image d after `create a.txt` and after a second create
StagedOnce(d) == cmd_create(d, CursorOnly(JHDR_SIZE), ShortName, 1).journal

StagedTwice(d) == cmd_create(d, StagedOnce(d), LongName, 1).journal

\* images with inode 1 and with inode 32 free; journals never used, empty, and
\* with one and two transactions staged
InitCrash ==
    /\ disk \in {FormattedDisk, DiskAfter(INODES_PER_BLOCK - 1)}
    /\ journal \in {BlankJournal, CursorOnly(JHDR_SIZE), StagedOnce(disk), StagedTwice(disk)}
    /\ pc = "idle"
    /\ jmem = NoMem
    /\ offset = 0
    /\ transaction_count = 0
    /\ out = NoOut
    /\ pre = [disk |-> disk, journal |-> journal, out |-> NoOut]
    /\ left = MaxCrashCmds

\* block write k of a write_journal that leaves the cursor at c holds bytes below
\* c; the writes after those put back what the region holds already
Below(k, c) == (k - 1) * BLOCK_SIZE < c

\* commands that may be killed; a journal with a torn record is not used again
NextCrash ==
    \/ /\ left > 0
       /\ left' = left - 1
       /\ Whole(journal)
       /\ \E filename \in Names, now \in Times : Create(filename, now)
    \/ /\ left > 0
       /\ left' = left - 1
       /\ Whole(journal)
       /\ \E now \in Times, k \in -1 .. (JOURNAL_BLOCKS - 1) :
              /\ k > 0 => Below(k, cmd_create(disk, journal, ShortName, now).journal.nbytes_used)
              /\ CreateKilled(ShortName, now, k)
    \/ /\ left > 0
       /\ left' = left - 1
       /\ Whole(journal)
       /\ InstallBegin
    \/ InstallStep /\ UNCHANGED left
    \/ InstallFinish /\ UNCHANGED left
    \/ /\ \E n \in 0 .. (JOURNAL_BLOCKS - 1) : (n > 0 => Below(n, JHDR_SIZE)) /\ InstallKilled(n)
       /\ UNCHANGED left

SpecCrash == InitCrash /\ [][NextCrash]_vars

\* what a later install reads of journal j: whether the magic is valid, the
\* cursor, and the bytes between the header and the cursor
Readable(j) ==
    IF j.magic # JOURNAL_MAGIC THEN [valid |-> FALSE, nbytes_used |-> 0, body |-> << >>]
    ELSE [valid |-> TRUE, nbytes_used |-> j.nbytes_used,
          body |-> Clip(j.body, JHDR_SIZE, j.nbytes_used)]

CreateKilledAt(stages) == out.cmd = "create" /\ out.res = "killed" /\ out.err \in stages

\* ---- C12 ----
\* C12 (crash during the journal write of create): when create is killed between
\* the block writes of its write_journal, a later install reads either exactly
\* the journal from before the create or exactly the journal of the completed
\* create, never a cursor over blocks that still hold older content.
C12_TornWriteAtomic ==
    CreateKilledAt({"in_write"}) =>
        \E now \in Times :
            Readable(journal) \in {Readable(pre.journal),
                                   Readable(cmd_create(pre.disk, pre.journal, out.arg, now).journal)}

\* ---- C13 ----
\* C13 (crash before the journal write of create): when create is killed before
\* its write_journal starts, the persisted journal is the one from before the
\* create, whatever that journal was, a never-used one included.
C13_EarlyCrashKeepsJournal ==
    CreateKilledAt({"at_start", "before_write"}) => journal = pre.journal

\* ---- C14 ----
CreateSucceeded == pc = "idle" /\ out.cmd = "create" /\ out.res = "ok"

\* the blocks that a create of inode ino stages, in order
StagedTargets(ino) ==
    IF ino \div INODES_PER_BLOCK = 0
    THEN <<INODE_BMAP_IDX, INODE_START_IDX, DATA_START_IDX>>
    ELSE <<INODE_BMAP_IDX, INODE_START_IDX + ino \div INODES_PER_BLOCK, INODE_START_IDX,
           DATA_START_IDX>>

\* from offset c on, journal j holds one data record per block of targets, in
\* that order, each with a whole block image, then one commit record, and the
\* cursor lies right behind the commit record
StagedInOrder(j, c, targets) ==
    /\ \A i \in 1 .. Len(targets) :
          LET o == c + (i - 1) * DataRecSize
          IN /\ HdrAt(j.body, o) = [type |-> REC_DATA, size |-> DataRecSize]
             /\ (o + REC_HDR_SIZE) \in DOMAIN j.body
             /\ j.body[o + REC_HDR_SIZE] = <<"blk", targets[i]>>
             /\ (o + REC_HDR_SIZE + U32_SIZE) \in DOMAIN j.body
             /\ j.body[o + REC_HDR_SIZE + U32_SIZE][1] = "img"
    /\ HdrAt(j.body, c + Len(targets) * DataRecSize) = [type |-> REC_COMMIT, size |-> REC_HDR_SIZE]
    /\ j.nbytes_used = c + Len(targets) * DataRecSize + REC_HDR_SIZE

\* C14 (staging order of one create): a successful create appends, at the old
\* cursor, a data record for block 17, one for the inode-table block of the new
\* inode, one for block 19 iff the new inode is 32 or higher, one for block 21,
\* and one commit record; each data record holds a whole block image and moves
\* the cursor by 4104, the commit record by 4.
C14_StagingOrder ==
    CreateSucceeded =>
        StagedInOrder(journal, init_journal(pre.journal).nbytes_used,
                      StagedTargets(ChosenInode(pre.disk)))

C14_Witness ==
    /\ CreateSucceeded
    /\ ChosenInode(pre.disk) >= INODES_PER_BLOCK
    /\ pre.journal.nbytes_used > JHDR_SIZE
    /\ C14_StagingOrder

\* ---- C15 ----
\* C15 (replay is buffered per transaction): a step of install that reads a
\* data record writes nothing to the permanent region, which changes only in
\* the step that reads a commit record; after each commit record and when
\* install has finished, the permanent region and the transaction count are
\* those of the buffered reference replay of the same journal.
C15_BufferedReplay ==
    [][/\ (pc = "replay" /\ pc' = "replay" /\ transaction_count' = transaction_count) => disk' = disk
       /\ (pc = "replay" /\ pc' = "replay" /\ transaction_count' # transaction_count) =>
              LET upto == BufferedReplay(pre.disk, [jmem EXCEPT !.nbytes_used = offset'])
              IN disk' = upto.disk /\ transaction_count' = upto.count
       /\ (pc # "idle" /\ pc' = "idle") =>
              /\ disk' = BufferedReplay(pre.disk, pre.journal).disk
              /\ out'.count = BufferedReplay(pre.disk, pre.journal).count]_vars

\* ---- C16 ----
\* the slots of directory block b that hold an entry
OccupiedSlots(b) == {i \in 0 .. (MAX_ENTRIES - 1) : DirentAt(b, i) # ZeroDirent}

\* `create` on image d with an empty journal: it fails with directory-full when
\* no slot is free, and else stages a directory block that differs from the
\* one of d in the lowest free slot only, which names the new inode
SelectsLowestFree(d) ==
    LET free == (0 .. (MAX_ENTRIES - 1)) \ OccupiedSlots(d[DATA_START_IDX])
        r == cmd_create(d, CursorOnly(JHDR_SIZE), ShortName, 1)
        staged == BlockDataAt(r.journal.body, r.journal.nbytes_used - REC_HDR_SIZE - DataRecSize)
    IN IF ChosenInode(d) < 0 THEN r.res = "no_free_inodes"
       ELSE IF free = {} THEN r.res = "directory_full"
       ELSE /\ r.res = "ok"
            /\ \E s \in free :
                  /\ \A t \in free : s <= t
                  /\ DirentAt(staged, s) = [inode |-> ChosenInode(d), name |-> ShortName]
                  /\ \A t \in (0 .. (MAX_ENTRIES - 1)) \ {s} :
                        DirentAt(staged, t) = DirentAt(d[DATA_START_IDX], t)

\* the rule on images with a free slot, with holes, with a full directory and
\* with no free inode
SelectionRule == \A d \in PermImages : SelectsLowestFree(d)

\* C16 (free-slot selection keeps existing entries): create takes the lowest
\* slot whose inode number is 0 and whose name is empty, and fails with
\* directory-full when there is none; so, from a formatted image on, '.' and
\* '..' stay in slots 0 and 1 and every entry that was in the directory when a
\* command started is still there, with its inode number and name.
C16_EntriesKept ==
    /\ SelectionRule
    /\ SelectsLowestFree(disk)
    /\ DirentAt(disk[DATA_START_IDX], 0) = [inode |-> 0, name |-> "."]
    /\ DirentAt(disk[DATA_START_IDX], 1) = [inode |-> 0, name |-> ".."]
    /\ \A s \in OccupiedSlots(pre.disk[DATA_START_IDX]) :
          DirentAt(disk[DATA_START_IDX], s) = DirentAt(pre.disk[DATA_START_IDX], s)

C16_Witness ==
    /\ InstallDone
    /\ out.count > 0
    /\ \E s \in OccupiedSlots(pre.disk[DATA_START_IDX]) : s > 1
    /\ OccupiedSlots(disk[DATA_START_IDX]) # OccupiedSlots(pre.disk[DATA_START_IDX])

\* ---- C17 ----
\* the blocks that create stages: inode bitmap, inode table, root directory
MetadataBlocks ==
    {INODE_BMAP_IDX, DATA_START_IDX} \cup (INODE_START_IDX .. (INODE_START_IDX + INODE_BLOCKS - 1))

\* the block numbers of the data records in the journal region
RecordTargets(j) == {j.body[o][2] : o \in {p \in DOMAIN j.body : j.body[p][1] = "blk"}}

\* C17 (superblock and data bitmap are never rewritten): every data record
\* that create stages targets block 17, 19, 20 or 21, and the superblock, the
\* data bitmap and the data blocks 22..84 hold their formatted content in
\* every state.
C17_OnlyMetadataWritten ==
    /\ RecordTargets(journal) \subseteq MetadataBlocks
    /\ \A b \in PermBlocks \ MetadataBlocks : disk[b] = FormattedDisk[b]

C17_Witness ==
    /\ InstallDone
    /\ out.count > 0
    /\ \A b \in MetadataBlocks : disk[b] # FormattedDisk[b]
    /\ C17_OnlyMetadataWritten

\* ---- C18 ----
\* the directory images staged in journal j, in journal order
StagedDirs(j) ==
    LET at == {o \in DOMAIN j.body : /\ o < j.nbytes_used
                                     /\ j.body[o] = <<"blk", DATA_START_IDX>>}
    IN [o \in at |-> j.body[o + U32_SIZE][2]]

\* an install has finished that found two or more creates staged
InstalledSeveral ==
    /\ InstallDone
    /\ pre.out.cmd = "create"
    /\ pre.out.res = "ok"
    /\ Staged(pre.journal) >= 2

\* C18 (creates without an install between them collide): all the creates
\* staged since the last install chose the same inode number and the same
\* directory slot; after the install exactly one more inode bit is set and one
\* more slot is filled, and that slot holds the name of the create staged last.
C18_Collide ==
    InstalledSeveral =>
        LET ino == ChosenInode(pre.disk)
            slot == ChosenSlot(pre.disk)
            before == pre.disk[DATA_START_IDX]
            dirs == StagedDirs(pre.journal)
        IN /\ \A o \in DOMAIN dirs :
                 /\ DirentAt(dirs[o], slot).inode = ino
                 /\ OccupiedSlots(dirs[o]) = OccupiedSlots(before) \cup {slot}
           /\ ino \notin BitsOf(pre.disk[INODE_BMAP_IDX])
           /\ BitsOf(disk[INODE_BMAP_IDX]) = BitsOf(pre.disk[INODE_BMAP_IDX]) \cup {ino}
           /\ slot \notin OccupiedSlots(before)
           /\ OccupiedSlots(disk[DATA_START_IDX]) = OccupiedSlots(before) \cup {slot}
           /\ DirentAt(disk[DATA_START_IDX], slot) =
                  [inode |-> ino, name |-> strncpy_name(pre.out.arg)]

\* two creates with different names, installed
C18_Witness ==
    /\ InstalledSeveral
    /\ \E o \in DOMAIN StagedDirs(pre.journal) :
          DirentAt(StagedDirs(pre.journal)[o], ChosenSlot(pre.disk)).name
              # DirentAt(disk[DATA_START_IDX], ChosenSlot(pre.disk)).name
    /\ C18_Collide

\* ---- creates until the journal is full ----
MaxFillCmds == 7

InitFill ==
    /\ disk \in {FormattedDisk, DiskAfter(INODES_PER_BLOCK - 1)}
    /\ journal = BlankJournal
    /\ pc = "idle"
    /\ jmem = NoMem
    /\ offset = 0
    /\ transaction_count = 0
    /\ out = NoOut
    /\ pre = [disk |-> disk, journal |-> journal, out |-> NoOut]
    /\ left = MaxFillCmds

\* any MaxFillCmds commands, with no limit on the creates between two installs
NextFill ==
    \/ /\ left > 0
       /\ left' = left - 1
       /\ \E now \in Times : Create(ShortName, now)
    \/ /\ left > 0
       /\ left' = left - 1
       /\ InstallBegin
    \/ InstallStep /\ UNCHANGED left
    \/ InstallFinish /\ UNCHANGED left

SpecFill == InitFill /\ [][NextFill]_vars

\* ---- C19 ----
\* from offset o to the cursor, journal j holds whole transactions: ndata data
\* records of the current one have been read, each transaction is 3 or 4 data
\* records that declare 4104 bytes and one commit record that declares 4
RECURSIVE TransactionsFrom(_, _, _)
TransactionsFrom(j, o, ndata) ==
    IF o = j.nbytes_used THEN ndata = 0
    ELSE IF o + REC_HDR_SIZE > j.nbytes_used THEN FALSE
    ELSE IF HdrAt(j.body, o) = [type |-> REC_DATA, size |-> DataRecSize]
    THEN /\ o + DataRecSize <= j.nbytes_used
         /\ ndata < 4
         /\ (o + REC_HDR_SIZE) \in DOMAIN j.body
         /\ j.body[o + REC_HDR_SIZE][1] = "blk"
         /\ (o + REC_HDR_SIZE + U32_SIZE) \in DOMAIN j.body
         /\ j.body[o + REC_HDR_SIZE + U32_SIZE][1] = "img"
         /\ TransactionsFrom(j, o + DataRecSize, ndata + 1)
    ELSE IF HdrAt(j.body, o) = [type |-> REC_COMMIT, size |-> REC_HDR_SIZE]
    THEN ndata \in {3, 4} /\ TransactionsFrom(j, o + REC_HDR_SIZE, 0)
    ELSE FALSE

\* C19 (the persisted journal is well-formed when no command is interrupted):
\* from the formatted image on, once the magic is valid, the cursor lies
\* between 8 and 16 * 4096 and the bytes from the header to the cursor are zero
\* or more whole transactions, with no data record left without its commit.
C19_WellFormed ==
    journal.magic = JOURNAL_MAGIC =>
        /\ JHDR_SIZE <= journal.nbytes_used
        /\ journal.nbytes_used <= JOURNAL_BLOCKS * BLOCK_SIZE
        /\ TransactionsFrom(journal, JHDR_SIZE, 0)

\* a create has failed on a journal too full for one more transaction
C19_Witness ==
    /\ pc = "idle"
    /\ out.cmd = "create"
    /\ out.res = "journal_full"
    /\ Staged(journal) >= 3
    /\ C19_WellFormed

\* ---- C20 ----
\* journal.c:334-365; the permanent region after the whole replay loop of an
\* install that nothing interrupts, run on image d with journal j from offset o
RECURSIVE ReplayFrom(_, _, _)
ReplayFrom(d, j, o) ==
    LET rec_hdr == HdrAt(j.body, o)
    IN IF ~(o < j.nbytes_used) THEN d
       ELSE IF o + REC_HDR_SIZE > j.nbytes_used THEN d
       ELSE IF rec_hdr.type = REC_DATA
       THEN IF o + REC_HDR_SIZE + U32_SIZE + BLOCK_SIZE > j.nbytes_used THEN d
            ELSE ReplayFrom([d EXCEPT ![BlockNoAt(j.body, o)] = BlockDataAt(j.body, o)], j,
                            o + rec_hdr.size)
       ELSE IF rec_hdr.type = REC_COMMIT THEN ReplayFrom(d, j, o + rec_hdr.size)
       ELSE d

\* the journal that the install found holds one or more whole transactions
FoundTransactions ==
    /\ out.cmd = "install"
    /\ pre.journal.magic = JOURNAL_MAGIC
    /\ pre.journal.nbytes_used > JHDR_SIZE
    /\ TransactionsFrom(pre.journal, JHDR_SIZE, 0)

\* C20 (install can be run again after a crash): on a journal of whole
\* transactions, an install that has finished, whether it was the first run or
\* a run that followed any number of killed installs, leaves the permanent
\* region that one uninterrupted install leaves, and the cursor at 8; and in
\* no state, killed ones included, is the persisted cursor back at 8 before
\* every data record's block has been written.
C20_Restartable ==
    FoundTransactions =>
        /\ InstallCompleted =>
              /\ disk = ReplayFrom(pre.disk, pre.journal, JHDR_SIZE)
              /\ journal.nbytes_used = JHDR_SIZE
        /\ journal.nbytes_used = JHDR_SIZE =>
              disk = ReplayFrom(pre.disk, pre.journal, JHDR_SIZE)

\* an install run after a killed install has finished and has written blocks
C20_Witness ==
    /\ FoundTransactions
    /\ InstallCompleted
    /\ pre.out.cmd = "install"
    /\ pre.out.res = "killed"
    /\ Staged(pre.journal) >= 2
    /\ disk # pre.disk
    /\ C20_Restartable

====
